---- MODULE Spec2Model ----
(***************************************************************************)
(* Model of the computer-use tools of mcp-server-browserbase               *)
(* (src/unnamed/part_000, tools/computerUse.ts): nine tools, each a        *)
(* handle() that builds an async action() closure, and the shared helper   *)
(* takeAndRegisterScreenshot.                                              *)
(*                                                                         *)
(* An invocation suspends at every await.  One model action is the effect  *)
(* of the awaited operation followed by the synchronous code that runs up  *)
(* to the next await; other invocations, session changes and the clock may *)
(* interleave between two such actions.                                    *)
(*                                                                         *)
(* context.js, mcp/resources.js and the dispatcher that validates the      *)
(* arguments are not part of the sources at hand; their definitions here   *)
(* follow spec.md sections 4.1, 4.2 and 7 and are marked so in the map.    *)
(***************************************************************************)
EXTENDS Integers, Sequences, FiniteSets, TLC

\* ------------------------------------------------------------------ bounds
\* Number of invocations that may be in flight together (each runs once).
MaxInv == 2
\* Number of millisecond boundaries the wall clock may cross.
MaxTick == 1
\* Number of sessions that may be created.
MaxSessions == 2

\* ------------------------------------------------------------ JSON values
Num(n) == [type |-> "number", int |-> TRUE, val |-> n]
\* n + 1/2: a number that is not an integer
Half(n) == [type |-> "number", int |-> FALSE, val |-> n]
Str(s) == [type |-> "string", val |-> s]
Undefined == [type |-> "undefined"]
Pt(x, y) == [x |-> x, y |-> y]
IsUndefined(v) == v.type = "undefined"

\* z.number().int()
ZInt(v) == v.type = "number" /\ v.int
\* z.string()
ZString(v) == v.type = "string"
\* z.enum(["left", "right", "middle"])
ButtonEnum == {"left", "right", "middle"}

\* program constants of the schemas
DefaultMs == 1000
MinKeys == 1
MinPath == 2

Ok(d) == [success |-> TRUE, data |-> d]
Invalid == [success |-> FALSE]

\* ---------------------------------------------------------------- schemas
\* Each schema is the zod object of the source applied to a raw argument
\* record: success with the parsed data (defaults filled in), or failure.
CuScreenshotInputSchema(raw) == Ok([kind |-> "screenshot"])

CuClickInputSchema(raw) ==
    IF /\ ZInt(raw.x)
       /\ ZInt(raw.y)
       /\ \/ IsUndefined(raw.button)
          \/ ZString(raw.button) /\ raw.button.val \in ButtonEnum
    THEN Ok([kind |-> "click", x |-> raw.x.val, y |-> raw.y.val,
             button |-> IF IsUndefined(raw.button) THEN "left"
                        ELSE raw.button.val])
    ELSE Invalid

CuDoubleClickInputSchema(raw) ==
    IF ZInt(raw.x) /\ ZInt(raw.y)
    THEN Ok([kind |-> "double_click", x |-> raw.x.val, y |-> raw.y.val])
    ELSE Invalid

CuScrollInputSchema(raw) ==
    IF ZInt(raw.x) /\ ZInt(raw.y) /\ ZInt(raw.scroll_x) /\ ZInt(raw.scroll_y)
    THEN Ok([kind |-> "scroll", x |-> raw.x.val, y |-> raw.y.val,
             scroll_x |-> raw.scroll_x.val, scroll_y |-> raw.scroll_y.val])
    ELSE Invalid

CuTypeInputSchema(raw) ==
    IF ZString(raw.text) /\ (IsUndefined(raw.delayMs) \/ ZInt(raw.delayMs))
    THEN Ok([kind |-> "type", text |-> raw.text.val, delayMs |-> raw.delayMs])
    ELSE Invalid

\* The wait schema without .default(1000): an omitted ms stays 0.
CuWaitInputSchema_NoDefault(raw) ==
    IF IsUndefined(raw.ms) \/ ZInt(raw.ms)
    THEN Ok([kind |-> "wait",
             ms |-> IF IsUndefined(raw.ms) THEN 0 ELSE raw.ms.val])
    ELSE Invalid

CuWaitInputSchema(raw) ==
    IF IsUndefined(raw.ms) \/ ZInt(raw.ms)
    THEN Ok([kind |-> "wait",
             ms |-> IF IsUndefined(raw.ms) THEN DefaultMs ELSE raw.ms.val])
    ELSE Invalid

CuMoveInputSchema(raw) ==
    IF ZInt(raw.x) /\ ZInt(raw.y)
    THEN Ok([kind |-> "move", x |-> raw.x.val, y |-> raw.y.val])
    ELSE Invalid

CuKeypressInputSchema(raw) ==
    IF /\ \A j \in 1..Len(raw.keys) : ZString(raw.keys[j])
       /\ Len(raw.keys) >= MinKeys
    THEN Ok([kind |-> "keypress",
             keys |-> [j \in 1..Len(raw.keys) |-> raw.keys[j].val]])
    ELSE Invalid

\* The drag schema with .min(1).
CuDragInputSchema_MinOne(raw) ==
    IF /\ \A j \in 1..Len(raw.path) : ZInt(raw.path[j].x) /\ ZInt(raw.path[j].y)
       /\ Len(raw.path) >= 1
    THEN Ok([kind |-> "drag",
             path |-> [j \in 1..Len(raw.path) |->
                         Pt(raw.path[j].x.val, raw.path[j].y.val)]])
    ELSE Invalid

CuDragInputSchema(raw) ==
    IF /\ \A j \in 1..Len(raw.path) : ZInt(raw.path[j].x) /\ ZInt(raw.path[j].y)
       /\ Len(raw.path) >= MinPath
    THEN Ok([kind |-> "drag",
             path |-> [j \in 1..Len(raw.path) |->
                         Pt(raw.path[j].x.val, raw.path[j].y.val)]])
    ELSE Invalid

\* ------------------------------------------------------------------ tools
\* Template literals render a number in decimal.
N(n) == ToString(n)

\* One primitive call the action awaits: the method and its arguments.
Call(method, args) == [method |-> method, args |-> args]

\* The text part of a result, or the exception its construction raises.
Text(s) == [threw |-> FALSE, text |-> s]
Throws(m) == [threw |-> TRUE, message |-> m]

\* A tool: the screenshot-name prefix, whether action() has the try/catch
\* and its verb, the primitives awaited in order, and the descriptive text
\* prepended to the screenshot parts (none for the screenshot tool).
cuScreenshotTool(a) ==
    [namePrefix |-> "cu-screenshot", catches |-> FALSE, verb |-> "",
     prims |-> <<>>, describes |-> FALSE, text |-> Text("")]

\* The click tool passing no button to mouse.click (the driver's default).
cuClickTool_NoButton(a) ==
    [namePrefix |-> "cu-click", catches |-> TRUE, verb |-> "click",
     prims |-> << Call("mouse.click", <<a.x, a.y, "left">>) >>,
     describes |-> TRUE,
     text |-> Text("Clicked at (" \o N(a.x) \o ", " \o N(a.y) \o ") with "
                   \o a.button)]

cuClickTool(a) ==
    [namePrefix |-> "cu-click", catches |-> TRUE, verb |-> "click",
     prims |-> << Call("mouse.click", <<a.x, a.y, a.button>>) >>,
     describes |-> TRUE,
     text |-> Text("Clicked at (" \o N(a.x) \o ", " \o N(a.y) \o ") with "
                   \o a.button)]

cuDoubleClickTool(a) ==
    [namePrefix |-> "cu-double-click", catches |-> TRUE,
     verb |-> "double click",
     prims |-> << Call("mouse.dblclick", <<a.x, a.y>>) >>,
     describes |-> TRUE,
     text |-> Text("Double clicked at (" \o N(a.x) \o ", " \o N(a.y) \o ")")]

\* The scroll applying the wheel before it moves the pointer.
cuScrollTool_WheelFirst(a) ==
    [namePrefix |-> "cu-scroll", catches |-> TRUE, verb |-> "scroll",
     prims |-> << Call("mouse.wheel", <<a.scroll_x, a.scroll_y>>),
                  Call("mouse.move", <<a.x, a.y>>) >>,
     describes |-> TRUE,
     text |-> Text("Scrolled at (" \o N(a.x) \o ", " \o N(a.y) \o ") by ("
                   \o N(a.scroll_x) \o ", " \o N(a.scroll_y) \o ")")]

cuScrollTool(a) ==
    [namePrefix |-> "cu-scroll", catches |-> TRUE, verb |-> "scroll",
     prims |-> << Call("mouse.move", <<a.x, a.y>>),
                  Call("mouse.wheel", <<a.scroll_x, a.scroll_y>>) >>,
     describes |-> TRUE,
     text |-> Text("Scrolled at (" \o N(a.x) \o ", " \o N(a.y) \o ") by ("
                   \o N(a.scroll_x) \o ", " \o N(a.scroll_y) \o ")")]

\* The type tool without its try/catch.
cuTypeTool_NoCatch(a) ==
    [namePrefix |-> "cu-type", catches |-> FALSE, verb |-> "",
     prims |-> << Call("keyboard.type", <<a.text, a.delayMs>>) >>,
     describes |-> TRUE,
     text |-> Text("Typed " \o N(Len(a.text)) \o " characters")]

cuTypeTool(a) ==
    [namePrefix |-> "cu-type", catches |-> TRUE, verb |-> "type",
     prims |-> << Call("keyboard.type", <<a.text, a.delayMs>>) >>,
     describes |-> TRUE,
     text |-> Text("Typed " \o N(Len(a.text)) \o " characters")]

cuWaitTool(a) ==
    [namePrefix |-> "cu-wait", catches |-> FALSE, verb |-> "",
     prims |-> << Call("waitForTimeout", <<a.ms>>) >>,
     describes |-> TRUE,
     text |-> Text("Waited for " \o N(a.ms) \o " ms")]

cuMoveTool(a) ==
    [namePrefix |-> "cu-move", catches |-> TRUE, verb |-> "move",
     prims |-> << Call("mouse.move", <<a.x, a.y>>) >>,
     describes |-> TRUE,
     text |-> Text("Moved mouse to (" \o N(a.x) \o ", " \o N(a.y) \o ")")]

\* keys.join(", ")
RECURSIVE JoinFrom(_, _, _)
JoinFrom(strs, sep, k) ==
    IF k > Len(strs) THEN ""
    ELSE IF k = Len(strs) THEN strs[k]
    ELSE strs[k] \o sep \o JoinFrom(strs, sep, k + 1)

Join(strs, sep) == JoinFrom(strs, sep, 1)

\* The keypress pressing the keys from the last to the first.
cuKeypressTool_Reversed(a) ==
    [namePrefix |-> "cu-keypress", catches |-> TRUE, verb |-> "press keys",
     prims |-> [j \in 1..Len(a.keys) |->
                  Call("keyboard.press", <<a.keys[Len(a.keys) + 1 - j]>>)],
     describes |-> TRUE,
     text |-> Text("Pressed keys: " \o Join(a.keys, ", "))]

cuKeypressTool(a) ==
    [namePrefix |-> "cu-keypress", catches |-> TRUE, verb |-> "press keys",
     prims |-> [j \in 1..Len(a.keys) |-> Call("keyboard.press", <<a.keys[j]>>)],
     describes |-> TRUE,
     text |-> Text("Pressed keys: " \o Join(a.keys, ", "))]

\* The drag releasing the button before it moves through the rest.
cuDragTool_EarlyRelease(a) ==
    LET start == a.path[1]
        rest  == Tail(a.path)
    IN  [namePrefix |-> "cu-drag", catches |-> TRUE, verb |-> "drag",
         prims |-> << Call("mouse.move", <<start.x, start.y>>),
                      Call("mouse.down", <<>>),
                      Call("mouse.up", <<>>) >>
                   \o [j \in 1..Len(rest) |->
                         Call("mouse.move", <<rest[j].x, rest[j].y>>)],
         describes |-> TRUE,
         text |-> IF Len(rest) = 0
                  THEN Throws("Cannot read properties of undefined (reading 'x')")
                  ELSE Text("Dragged from (" \o N(start.x) \o ", "
                            \o N(start.y) \o ") to ("
                            \o N(rest[Len(rest)].x) \o ", "
                            \o N(rest[Len(rest)].y) \o ") via "
                            \o N(Len(a.path)) \o " points")]

\* const [start, ...rest] = path; rest[rest.length - 1] is undefined when
\* rest is empty, and reading its x raises a TypeError.
cuDragTool(a) ==
    LET start == a.path[1]
        rest  == Tail(a.path)
    IN  [namePrefix |-> "cu-drag", catches |-> TRUE, verb |-> "drag",
         prims |-> << Call("mouse.move", <<start.x, start.y>>),
                      Call("mouse.down", <<>>) >>
                   \o [j \in 1..Len(rest) |->
                         Call("mouse.move", <<rest[j].x, rest[j].y>>)]
                   \o << Call("mouse.up", <<>>) >>,
         describes |-> TRUE,
         text |-> IF Len(rest) = 0
                  THEN Throws("Cannot read properties of undefined (reading 'x')")
                  ELSE Text("Dragged from (" \o N(start.x) \o ", "
                            \o N(start.y) \o ") to ("
                            \o N(rest[Len(rest)].x) \o ", "
                            \o N(rest[Len(rest)].y) \o ") via "
                            \o N(Len(a.path)) \o " points")]

\* The catalog: tool name -> schema and handler (TOOLS of tools/index.ts).
Kinds == {"screenshot", "click", "double_click", "scroll", "type", "wait",
          "move", "keypress", "drag"}

InputSchema(kind, raw) ==
    CASE kind = "screenshot"   -> CuScreenshotInputSchema(raw)
      [] kind = "click"        -> CuClickInputSchema(raw)
      [] kind = "double_click" -> CuDoubleClickInputSchema(raw)
      [] kind = "scroll"       -> CuScrollInputSchema(raw)
      [] kind = "type"         -> CuTypeInputSchema(raw)
      [] kind = "wait"         -> CuWaitInputSchema(raw)
      [] kind = "move"         -> CuMoveInputSchema(raw)
      [] kind = "keypress"     -> CuKeypressInputSchema(raw)
      [] kind = "drag"         -> CuDragInputSchema(raw)

Tool(a) ==
    CASE a.kind = "screenshot"   -> cuScreenshotTool(a)
      [] a.kind = "click"        -> cuClickTool(a)
      [] a.kind = "double_click" -> cuDoubleClickTool(a)
      [] a.kind = "scroll"       -> cuScrollTool(a)
      [] a.kind = "type"         -> cuTypeTool(a)
      [] a.kind = "wait"         -> cuWaitTool(a)
      [] a.kind = "move"         -> cuMoveTool(a)
      [] a.kind = "keypress"     -> cuKeypressTool(a)
      [] a.kind = "drag"         -> cuDragTool(a)

\* ------------------------------------------------------- screenshot names
Pad2(n) == IF n < 10 THEN "0" \o N(n) ELSE N(n)
Pad3(n) == IF n < 10 THEN "00" \o N(n) ELSE IF n < 100 THEN "0" \o N(n) ELSE N(n)

\* new Date().toISOString() for an instant t (milliseconds) of 1970-01-01,
\* as the sequence of its fields and separators.
toISOString(t) ==
    << "1970-01-01", "T", Pad2((t \div 3600000) % 24), ":",
       Pad2((t \div 60000) % 60), ":", Pad2((t \div 1000) % 60), ".",
       Pad3(t % 1000), "Z" >>

\* .replace(/:/g, "-")
ReplaceColons(parts) ==
    [j \in 1..Len(parts) |-> IF parts[j] = ":" THEN "-" ELSE parts[j]]

\* `${namePrefix}-${new Date().toISOString().replace(/:/g, "-")}`
ScreenshotName(namePrefix, t) ==
    CHOOSE name \in { namePrefix \o "-" \o Join(ReplaceColons(iso), "") :
                      iso \in {toISOString(t)} } : TRUE

\* buffer.toString("base64")
Base64(buffer) == [encoding |-> "base64", of |-> buffer]

\* The wall clock when the server starts: 00:00:59.999.
StartMs == 59 * 1000 + 999

\* --------------------------------------------------------------- requests
ClickLeft == [kind |-> "click",
              args |-> [x |-> Num(10), y |-> Num(20), button |-> Undefined]]
ClickRight == [kind |-> "click",
               args |-> [x |-> Num(10), y |-> Num(20), button |-> Str("right")]]
ClickMiddle == [kind |-> "click",
                args |-> [x |-> Num(-3), y |-> Num(0), button |-> Str("middle")]]
ClickFraction == [kind |-> "click",
                  args |-> [x |-> Half(10), y |-> Num(20), button |-> Undefined]]
ClickBack == [kind |-> "click",
              args |-> [x |-> Num(10), y |-> Num(20), button |-> Str("back")]]
WaitDefault == [kind |-> "wait", args |-> [ms |-> Undefined]]
WaitZero == [kind |-> "wait", args |-> [ms |-> Num(0)]]
KeysTwo == [kind |-> "keypress",
            args |-> [keys |-> <<Str("Shift+Tab"), Str("ArrowDown")>>]]
KeysNone == [kind |-> "keypress", args |-> [keys |-> <<>>]]
DragTwo == [kind |-> "drag",
            args |-> [path |-> <<Pt(Num(10), Num(10)), Pt(Num(50), Num(60))>>]]
DragThree == [kind |-> "drag",
              args |-> [path |-> <<Pt(Num(10), Num(10)), Pt(Num(30), Num(5)),
                                   Pt(Num(50), Num(60))>>]]
DragOne == [kind |-> "drag", args |-> [path |-> <<Pt(Num(10), Num(10))>>]]

Requests ==
    { [kind |-> "screenshot", args |-> [none |-> Undefined]],
      ClickLeft, ClickRight, ClickMiddle, ClickFraction, ClickBack,
      [kind |-> "double_click", args |-> [x |-> Num(10), y |-> Num(20)]],
      [kind |-> "scroll", args |-> [x |-> Num(10), y |-> Num(20),
                                    scroll_x |-> Num(0), scroll_y |-> Num(-120)]],
      [kind |-> "type", args |-> [text |-> Str("hi"), delayMs |-> Undefined]],
      WaitDefault, WaitZero,
      [kind |-> "move", args |-> [x |-> Num(10), y |-> Num(20)]],
      KeysTwo, KeysNone, DragTwo, DragThree, DragOne }

\* The first invocation is any request; those running beside it are drawn
\* from these (a tool with a try/catch and one primitive, and the longest).
Concurrent == {ClickLeft, DragTwo}

RequestsOf(i) == IF i = 1 THEN Requests ELSE Concurrent

\* ------------------------------------------------------------------ state
VARIABLES
    created,        \* number of sessions created so far (ids are not reused)
    live,           \* ids of the sessions that are open
    currentSessionId, \* context.currentSessionId: the active session, if any
    store,          \* the screenshot resources, in registration order
    notifications,  \* the notifications handed to the server, in order
    now,            \* the wall clock, in milliseconds
    inv,            \* the invocations: slot -> its position and history
    pointerDown     \* the pages whose mouse button is held down

vars == <<created, live, currentSessionId, store, notifications, now, inv,
          pointerDown>>

Slots == 1..MaxInv
SessionId(n) == "session-" \o N(n)
NoSession == "none"
\* A page is named by the session that owns it; null is NoPage.
NoPage == "null"

Idle ==
    [pc |-> "idle", req |-> [kind |-> "none"], args |-> [kind |-> "none"],
     k |-> 0, page |-> NoPage, buffer |-> [page |-> NoPage], trace |-> <<>>,
     thrown |-> "", failAt |-> "",
     outcome |-> [status |-> "pending", content |-> <<>>, message |-> ""]]

Init ==
    /\ created = 0
    /\ live = {}
    /\ currentSessionId = NoSession
    /\ store = <<>>
    /\ notifications = <<>>
    /\ now = StartMs
    /\ inv = [i \in Slots |-> Idle]
    /\ pointerDown = {}

\* ------------------------------------------------------- session registry
\* createSession: a fresh id; it becomes active if no session is active.
CreateSession ==
    /\ created < MaxSessions
    /\ created' = created + 1
    /\ live' = live \cup {SessionId(created + 1)}
    /\ currentSessionId' = IF currentSessionId = NoSession
                           THEN SessionId(created + 1)
                           ELSE currentSessionId
    /\ UNCHANGED <<store, notifications, now, inv, pointerDown>>

\* activate: an open session becomes the active one.
ActivateSession(id) ==
    /\ id \in live
    /\ id # currentSessionId
    /\ currentSessionId' = id
    /\ UNCHANGED <<created, live, store, notifications, now, inv, pointerDown>>

\* closeSession: the session is torn down; if it was active, no session is.
CloseSession(id) ==
    /\ id \in live
    /\ live' = live \ {id}
    /\ currentSessionId' = IF currentSessionId = id THEN NoSession
                           ELSE currentSessionId
    /\ UNCHANGED <<created, store, notifications, now, inv, pointerDown>>

\* context.getActivePage(): the active session's page, or null.
getActivePage ==
    IF currentSessionId \in live THEN currentSessionId ELSE NoPage

\* context.getServer(): the server the context was built with.
getServer == TRUE

\* registerScreenshot(sessionId, name, base64): appends, never overwrites.
registerScreenshot(sessionId, name, base64) ==
    Append(store, [sessionId |-> sessionId, name |-> name, data |-> base64])

\* list(sessionId): the session's resources in insertion order; none for a
\* session that is not open.
List(sessionId) ==
    IF sessionId \in live
    THEN SelectSeq(store, LAMBDA r : r.sessionId = sessionId)
    ELSE <<>>

\* ------------------------------------------------------------- the driver
NoActivePageMessage == "No active page available"
\* What a primitive of an open page may raise, and what every primitive of
\* a closed page raises.
DriverError == "Protocol error: Internal error"
ClosedError == "Target page, context or browser has been closed"
\* What the dispatcher answers to arguments the schema rejects.
ValidationMessage == "Invalid arguments"

\* The outcomes of a primitive awaited on `page`: "ok" or the message raised.
PrimitiveOutcomes(page) ==
    IF page \in live THEN {"ok", DriverError} ELSE {ClosedError}

\* The held buttons once `method` has taken effect on `page`: down presses,
\* up releases, a click or double click ends released; a primitive that
\* raises has no effect.
PointerAfter(method, page) ==
    IF method = "mouse.down" THEN pointerDown \cup {page}
    ELSE IF method \in {"mouse.up", "mouse.click", "mouse.dblclick"}
    THEN pointerDown \ {page}
    ELSE pointerDown

\* ---------------------------------------------------------- the executor
Event(op, page, args, ok) == [op |-> op, page |-> page, args |-> args, ok |-> ok]

\* catch (error) { msg = error.message; throw new Error(`Failed to ...`) },
\* or the exception as raised when action() has no try/catch.
Rethrow(tool, msg) ==
    IF tool.catches THEN "Failed to " \o tool.verb \o ": " \o msg ELSE msg

\* The invocation ends with the exception and with the text part as well.
Failed_WithText(r, msg, at, ev) ==
    [r EXCEPT !.pc = "done", !.thrown = msg, !.failAt = at,
              !.trace = r.trace \o ev,
              !.outcome = [status |-> "error",
                           content |-> << [type |-> "text", text |-> msg] >>,
                           message |-> Rethrow(Tool(r.args), msg)]]

\* The invocation ends with the exception `msg`, raised at step `at`.
Failed(r, msg, at, ev) ==
    [r EXCEPT !.pc = "done", !.thrown = msg, !.failAt = at,
              !.trace = r.trace \o ev,
              !.outcome = [status |-> "error", content |-> <<>>,
                           message |-> Rethrow(Tool(r.args), msg)]]

\* The dispatcher validates the arguments against the tool's schema, calls
\* handle() and starts the action() it returns, which runs up to its first
\* await, context.getActivePage().  Invocations take the slots in order.
Dispatch(i, req) ==
    /\ inv[i].pc = "idle"
    /\ \A j \in 1..(i - 1) : inv[j].pc # "idle"
    /\ LET parsed == InputSchema(req.kind, req.args)
       IN  inv' = [inv EXCEPT ![i] =
                IF parsed.success
                THEN [@ EXCEPT !.pc = "getActivePage", !.req = req,
                               !.args = parsed.data]
                ELSE [@ EXCEPT !.pc = "done", !.req = req,
                               !.failAt = "validate",
                               !.outcome = [status |-> "error",
                                            content |-> <<>>,
                                            message |-> ValidationMessage]]]
    /\ UNCHANGED <<created, live, currentSessionId, store, notifications, now,
                 pointerDown>>

\* Resolve without the null check: the action goes on with a null page.
Resolve_NoNullCheck(i) ==
    /\ inv[i].pc = "getActivePage"
    /\ LET r == inv[i]
           page == getActivePage
       IN  inv' = [inv EXCEPT ![i] =
                [r EXCEPT !.page = page, !.k = 1,
                          !.trace = Append(r.trace,
                              Event("getActivePage", page, <<>>, TRUE)),
                          !.pc = IF Len(Tool(r.args).prims) = 0
                                 THEN "screenshot" ELSE "primitive"]]
    /\ UNCHANGED <<created, live, currentSessionId, store, notifications, now,
                 pointerDown>>

\* const page = await context.getActivePage();
\* if (!page) throw new Error("No active page available");
\* then the first primitive, or the screenshot, is called.
Resolve(i) ==
    /\ inv[i].pc = "getActivePage"
    /\ LET r == inv[i]
           page == getActivePage
           ev == << Event("getActivePage", page, <<>>, TRUE) >>
       IN  inv' = [inv EXCEPT ![i] =
                IF page = NoPage
                THEN Failed(r, NoActivePageMessage, "resolve", ev)
                ELSE [r EXCEPT !.page = page, !.trace = r.trace \o ev,
                               !.k = 1,
                               !.pc = IF Len(Tool(r.args).prims) = 0
                                      THEN "screenshot" ELSE "primitive"]]
    /\ UNCHANGED <<created, live, currentSessionId, store, notifications, now,
                 pointerDown>>

\* The primitive step under a per-page lock: an invocation that has called a
\* primitive on a page keeps the others on that page waiting until it ends.
Primitive_Locked(i) ==
    /\ inv[i].pc = "primitive"
    /\ \A j \in Slots \ {i} :
         ~(/\ inv[j].page = inv[i].page
           /\ inv[j].pc \in {"primitive", "screenshot", "register"}
           /\ inv[j].k > 1)
    /\ LET r == inv[i]
           prims == Tool(r.args).prims
           call == prims[r.k]
       IN  \E out \in PrimitiveOutcomes(r.page) :
             /\ inv' = [inv EXCEPT ![i] =
                  IF out = "ok"
                  THEN [r EXCEPT !.k = r.k + 1,
                                 !.trace = Append(r.trace,
                                     Event(call.method, r.page, call.args, TRUE)),
                                 !.pc = IF r.k = Len(prims)
                                        THEN "screenshot" ELSE "primitive"]
                  ELSE Failed(r, out, "primitive",
                              << Event(call.method, r.page, call.args, FALSE) >>)]
             /\ pointerDown' = IF out = "ok"
                               THEN PointerAfter(call.method, r.page)
                               ELSE pointerDown
    /\ UNCHANGED <<created, live, currentSessionId, store, notifications, now>>

\* The primitive step with a compensating release: when a primitive raises
\* while the button is held, mouse.up is called before the error leaves.
Primitive_Release(i) ==
    /\ inv[i].pc = "primitive"
    /\ LET r == inv[i]
           prims == Tool(r.args).prims
           call == prims[r.k]
           held == "mouse.down" \in {r.trace[j].op : j \in 1..Len(r.trace)}
       IN  \E out \in PrimitiveOutcomes(r.page) :
             /\ inv' = [inv EXCEPT ![i] =
                  IF out = "ok"
                  THEN [r EXCEPT !.k = r.k + 1,
                                 !.trace = Append(r.trace,
                                     Event(call.method, r.page, call.args, TRUE)),
                                 !.pc = IF r.k = Len(prims)
                                        THEN "screenshot" ELSE "primitive"]
                  ELSE Failed(r, out, "primitive",
                              << Event(call.method, r.page, call.args, FALSE) >>
                              \o IF held
                                 THEN << Event("mouse.up", r.page, <<>>, TRUE) >>
                                 ELSE <<>>)]
             /\ pointerDown' = IF out = "ok"
                               THEN PointerAfter(call.method, r.page)
                               ELSE IF held THEN pointerDown \ {r.page}
                               ELSE pointerDown
    /\ UNCHANGED <<created, live, currentSessionId, store, notifications, now>>

\* await page.<primitive>(...): it completes, and the next one (or the
\* screenshot) is called; or it raises.
Primitive(i) ==
    /\ inv[i].pc = "primitive"
    /\ LET r == inv[i]
           prims == Tool(r.args).prims
           call == prims[r.k]
       IN  \E out \in PrimitiveOutcomes(r.page) :
             /\ inv' = [inv EXCEPT ![i] =
                  IF out = "ok"
                  THEN [r EXCEPT !.k = r.k + 1,
                                 !.trace = Append(r.trace,
                                     Event(call.method, r.page, call.args, TRUE)),
                                 !.pc = IF r.k = Len(prims)
                                        THEN "screenshot" ELSE "primitive"]
                  ELSE Failed(r, out, "primitive",
                              << Event(call.method, r.page, call.args, FALSE) >>)]
             /\ pointerDown' = IF out = "ok"
                               THEN PointerAfter(call.method, r.page)
                               ELSE pointerDown
    /\ UNCHANGED <<created, live, currentSessionId, store, notifications, now>>

\* const buffer = await page!.screenshot({ fullPage: false });
Capture(i) ==
    /\ inv[i].pc = "screenshot"
    /\ LET r == inv[i]
       IN  \E out \in PrimitiveOutcomes(r.page) :
             inv' = [inv EXCEPT ![i] =
                IF out = "ok"
                THEN [r EXCEPT !.buffer = [page |-> r.page],
                               !.trace = Append(r.trace,
                                   Event("screenshot", r.page, <<>>, TRUE)),
                               !.pc = "register"]
                ELSE Failed(r, out, "capture",
                            << Event("screenshot", r.page, <<>>, FALSE) >>)]
    /\ UNCHANGED <<created, live, currentSessionId, store, notifications, now,
                 pointerDown>>

TextPart(s) == [type |-> "text", text |-> s]
ImagePart(d) == [type |-> "image", data |-> d, mimeType |-> "image/png"]
ListChanged == "notifications/resources/list_changed"

\* takeAndRegisterScreenshot without the notification.
takeAndRegisterScreenshot_NoNotify(page, namePrefix, buffer, t, settles) ==
    LET base64 == Base64(buffer)
        name == ScreenshotName(namePrefix, t)
    IN  [threw |-> FALSE, message |-> "",
         store |-> registerScreenshot(currentSessionId, name, base64),
         notifications |-> notifications,
         events |-> << Event("registerScreenshot", page,
                             <<currentSessionId, name>>, TRUE) >>,
         content |-> << TextPart("Screenshot captured: " \o name),
                        ImagePart(base64) >>]

\* takeAndRegisterScreenshot awaiting the notification: a rejection is
\* raised in the action.
takeAndRegisterScreenshot_AwaitNotify(page, namePrefix, buffer, t, settles) ==
    LET base64 == Base64(buffer)
        name == ScreenshotName(namePrefix, t)
    IN  [threw |-> settles = "rejected", message |-> "Not connected",
         store |-> registerScreenshot(currentSessionId, name, base64),
         notifications |-> Append(notifications,
                                  [method |-> ListChanged, settles |-> settles]),
         events |-> << Event("registerScreenshot", page,
                             <<currentSessionId, name>>, TRUE),
                       Event("notification", page, <<ListChanged, settles>>,
                             TRUE) >>,
         content |-> << TextPart("Screenshot captured: " \o name),
                        ImagePart(base64) >>]

\* takeAndRegisterScreenshot notifying before it registers.
takeAndRegisterScreenshot_NotifyFirst(page, namePrefix, buffer, t, settles) ==
    LET base64 == Base64(buffer)
        name == ScreenshotName(namePrefix, t)
    IN  [threw |-> FALSE, message |-> "",
         store |-> registerScreenshot(currentSessionId, name, base64),
         notifications |-> Append(notifications,
                                  [method |-> ListChanged, settles |-> settles]),
         events |-> << Event("notification", page, <<ListChanged, settles>>,
                             TRUE),
                       Event("registerScreenshot", page,
                             <<currentSessionId, name>>, TRUE) >>,
         content |-> << TextPart("Screenshot captured: " \o name),
                        ImagePart(base64) >>]

\* takeAndRegisterScreenshot raising after the resource was stored.
takeAndRegisterScreenshot_ThrowsLate(page, namePrefix, buffer, t, settles) ==
    LET base64 == Base64(buffer)
        name == ScreenshotName(namePrefix, t)
    IN  [threw |-> TRUE, message |-> "Resource limit reached",
         store |-> registerScreenshot(currentSessionId, name, base64),
         notifications |-> notifications,
         events |-> << Event("registerScreenshot", page,
                             <<currentSessionId, name>>, TRUE) >>,
         content |-> <<>>]

\* takeAndRegisterScreenshot after its await, one synchronous block: encode,
\* name the resource by the clock reading t, read context.currentSessionId,
\* register, notify if there is a server, return the two parts.  The
\* notification call returns a promise nobody awaits; `settles` is how that
\* promise ends ("delivered" or "rejected").
takeAndRegisterScreenshot(page, namePrefix, buffer, t, settles) ==
    LET base64 == Base64(buffer)
        name == ScreenshotName(namePrefix, t)
        sessionId == currentSessionId
        serverInstance == getServer
    IN  [threw |-> FALSE, message |-> "",
         store |-> registerScreenshot(sessionId, name, base64),
         notifications |->
             IF serverInstance
             THEN Append(notifications,
                         [method |-> ListChanged, settles |-> settles])
             ELSE notifications,
         events |->
             << Event("registerScreenshot", page, <<sessionId, name>>, TRUE) >>
             \o IF serverInstance
                THEN << Event("notification", page, <<ListChanged, settles>>,
                              TRUE) >>
                ELSE <<>>,
         content |-> << TextPart("Screenshot captured: " \o name),
                        ImagePart(base64) >>]

\* The result with the text after the screenshot parts.
ActionResult_TextLast(tool, shot) ==
    IF tool.describes
    THEN shot.content \o << TextPart(tool.text.text) >>
    ELSE shot.content

\* What action() returns once takeAndRegisterScreenshot has returned `shot`:
\* the screenshot tool returns it as it is, the others prepend their text.
ActionResult(tool, shot) ==
    IF tool.describes
    THEN << TextPart(tool.text.text) >> \o shot.content
    ELSE shot.content

\* The continuation of `await page.screenshot()` up to the end of action().
Register(i) ==
    /\ inv[i].pc = "register"
    /\ \E t \in now .. (IF now < StartMs + MaxTick THEN now + 1 ELSE now),
          settles \in {"delivered", "rejected"} :
         LET r == inv[i]
             tool == Tool(r.args)
             shot == takeAndRegisterScreenshot(r.page, tool.namePrefix,
                                               r.buffer, t, settles)
         IN  /\ now' = t
             /\ store' = shot.store
             /\ notifications' = shot.notifications
             /\ inv' = [inv EXCEPT ![i] =
                  IF shot.threw
                  THEN Failed(r, shot.message, "notify", shot.events)
                  ELSE IF tool.describes /\ tool.text.threw
                  THEN Failed(r, tool.text.message, "result", shot.events)
                  ELSE [r EXCEPT !.pc = "done",
                                 !.trace = r.trace \o shot.events,
                                 !.outcome = [status |-> "result",
                                              content |-> ActionResult(tool, shot),
                                              message |-> ""]]]
    /\ UNCHANGED <<created, live, currentSessionId, pointerDown>>

\* ------------------------------------------------------- the specification
Next ==
    \/ CreateSession
    \/ \E id \in live : ActivateSession(id)
    \/ \E id \in live : CloseSession(id)
    \/ \E i \in Slots : \E req \in RequestsOf(i) : Dispatch(i, req)
    \/ \E i \in Slots : Resolve(i)
    \/ \E i \in Slots : Primitive(i)
    \/ \E i \in Slots : Capture(i)
    \/ \E i \in Slots : Register(i)

Spec == Init /\ [][Next]_vars

\* Every awaited operation (getActivePage, a primitive, the wait timer, the
\* screenshot) eventually settles and the event loop then runs the
\* continuation: each step of an invocation is weakly fair.
Fairness ==
    \A i \in Slots :
        /\ WF_vars(Resolve(i))
        /\ WF_vars(Primitive(i))
        /\ WF_vars(Capture(i))
        /\ WF_vars(Register(i))

\* The requests of the runs checked for completion: one of every tool, the
\* longest drag and a rejected one first, a click beside it.
LiveRequestsOf(i) ==
    IF i = 1
    THEN Requests \ {ClickRight, ClickMiddle, ClickFraction, ClickBack,
                     WaitZero, KeysNone, DragTwo}
    ELSE {ClickLeft}

LiveNext ==
    \/ CreateSession
    \/ \E id \in live : ActivateSession(id)
    \/ \E id \in live : CloseSession(id)
    \/ \E i \in Slots : \E req \in LiveRequestsOf(i) : Dispatch(i, req)
    \/ \E i \in Slots : Resolve(i)
    \/ \E i \in Slots : Primitive(i)
    \/ \E i \in Slots : Capture(i)
    \/ \E i \in Slots : Register(i)

LiveSpec == Init /\ [][LiveNext]_vars /\ Fairness

\* ------------------------------------------------------------ properties
Done(i) == inv[i].pc = "done"
Errored(i) == Done(i) /\ inv[i].outcome.status = "error"
Succeeded(i) == Done(i) /\ inv[i].outcome.status = "result"
Ops(tr) == {tr[k].op : k \in 1..Len(tr)}
EffectOps == {"mouse.click", "mouse.dblclick", "mouse.move", "mouse.wheel",
              "mouse.down", "mouse.up", "keyboard.type", "keyboard.press",
              "waitForTimeout", "screenshot", "registerScreenshot",
              "notification"}

\* The verb section 4.3 of the specification expects in "Failed to <verb>".
ActionVerb(kind) ==
    CASE kind = "screenshot"   -> "screenshot"
      [] kind = "click"        -> "click"
      [] kind = "double_click" -> "double click"
      [] kind = "scroll"       -> "scroll"
      [] kind = "type"         -> "type"
      [] kind = "wait"         -> "wait"
      [] kind = "move"         -> "move"
      [] kind = "keypress"     -> "press keys"
      [] kind = "drag"         -> "drag"

\* C1: every action re-throws an exception raised by a primitive, by the
\* capture or registration of the screenshot or by the assembly of the
\* result as "Failed to <action-verb>: <original message>".
C1_UniformWrap ==
    \A i \in Slots :
        Errored(i) /\ inv[i].failAt \in {"primitive", "capture", "notify", "result"}
        => inv[i].outcome.message =
             "Failed to " \o ActionVerb(inv[i].args.kind) \o ": " \o inv[i].thrown

\* C2: when getActivePage() yields no page, the invocation ends at once with
\* an error and without effect: no primitive, no capture, no registration,
\* no notification.
C2_ResolveFailureNoEffects ==
    [][\A i \in Slots :
         (inv[i].pc = "getActivePage" /\ getActivePage = NoPage
            /\ inv'[i] # inv[i])
         => /\ inv'[i].pc = "done"
            /\ inv'[i].outcome.status = "error"
            /\ inv'[i].outcome.content = <<>>
            /\ Ops(inv'[i].trace) \cap EffectOps = {}
            /\ store' = store
            /\ notifications' = notifications]_vars

C2_Witness ==
    \E i \in Slots : Errored(i) /\ inv[i].failAt = "resolve"

\* The error kinds of section 7 of the specification, told apart by the
\* message the caller receives.
ErrorKind(message) ==
    IF message = NoActivePageMessage THEN "no-session"
    ELSE IF message = ValidationMessage THEN "validation"
    ELSE "primitive-failure"

\* C3: once the active session has been closed and none is active, every
\* implicit-mode action fails with the no-session error: the same kind for
\* every action, and not the kind of a primitive failure.
C3_NoSessionErrorKind ==
    [][\A i \in Slots :
         (inv[i].pc = "getActivePage" /\ inv'[i].pc = "done"
            /\ created > 0 /\ currentSessionId = NoSession)
         => ErrorKind(inv'[i].outcome.message) = "no-session"]_vars

\* C4: every resource is registered under the session that owns the page
\* that was captured.
C4_RegisteredUnderCapturedSession ==
    \A k \in 1..Len(store) : store[k].sessionId = store[k].data.of.page

\* C5: one notification per registration: as many notifications as
\* resources in every state, and in every invocation each registration is
\* followed at once by its notification and each notification follows a
\* registration.
C5_OneNotificationPerRegistration ==
    /\ Len(notifications) = Len(store)
    /\ \A i \in Slots :
         LET tr == inv[i].trace
         IN  \A k \in 1..Len(tr) :
               /\ tr[k].op = "registerScreenshot"
                    => k < Len(tr) /\ tr[k + 1].op = "notification"
               /\ tr[k].op = "notification"
                    => k > 1 /\ tr[k - 1].op = "registerScreenshot"

C5_Witness ==
    /\ Len(store) = 2
    /\ Len(notifications) = 2
    /\ \A i \in Slots : Succeeded(i)

\* The notification of invocation i was rejected by the sink.
NotificationRejected(i) ==
    \E k \in 1..Len(inv[i].trace) :
        /\ inv[i].trace[k].op = "notification"
        /\ inv[i].trace[k].args[2] = "rejected"

\* The screenshot parts of a result: the text naming the resource, then the
\* image.
IsShotParts(parts) ==
    /\ Len(parts) = 2
    /\ parts[1].type = "text"
    /\ parts[2].type = "image"
    /\ parts[2].mimeType = "image/png"

\* C6: an invocation whose primitives, capture and registration succeeded
\* and whose notification alone failed ends with its complete result, not
\* with an error.
C6_NotificationFailureIgnored ==
    \A i \in Slots :
        Done(i) /\ NotificationRejected(i)
        => /\ Succeeded(i)
           /\ inv[i].outcome.message = ""
           /\ IsShotParts(SubSeq(inv[i].outcome.content,
                                 Len(inv[i].outcome.content) - 1,
                                 Len(inv[i].outcome.content)))

C6_Witness ==
    \E i \in Slots : Succeeded(i) /\ NotificationRejected(i)

\* C7: two resources registered for the same session have different names.
C7_NamesUniquePerSession ==
    \A k1, k2 \in 1..Len(store) :
        k1 < k2 /\ store[k1].sessionId = store[k2].sessionId
        => store[k1].name # store[k2].name

\* Invocation i ends in this step with a result.
Returns(i) ==
    inv[i].pc = "register" /\ inv'[i].pc = "done"
        /\ inv'[i].outcome.status = "result"

\* The text part that names resource `name`.
Names(part, name) ==
    part.type = "text" /\ part.text = "Screenshot captured: " \o name

\* list(sessionId) over the resources `st` and the open sessions `lv`.
ListOf(st, lv, sessionId) ==
    IF sessionId \in lv
    THEN SelectSeq(st, LAMBDA r : r.sessionId = sessionId)
    ELSE <<>>

C9_TypeFailure ==
    [][\A i \in Slots :
         (inv[i].args.kind = "type"
            /\ inv[i].pc \in {"getActivePage", "primitive"}
            /\ inv'[i].pc = "done")
         => /\ inv'[i].outcome.status = "error"
            /\ inv'[i].thrown \in {NoActivePageMessage, DriverError, ClosedError}
            /\ inv'[i].outcome.message = "Failed to type: " \o inv'[i].thrown
            /\ inv'[i].outcome.content = <<>>
            /\ Ops(inv'[i].trace) \cap {"screenshot", "registerScreenshot",
                                        "notification"} = {}
            /\ store' = store
            /\ notifications' = notifications]_vars

C9_Witness ==
    /\ \E i \in Slots :
         /\ Errored(i) /\ inv[i].args.kind = "type"
         /\ inv[i].failAt = "primitive"
         /\ inv[i].outcome.message = "Failed to type: Protocol error: Internal error"

\* The requests that violate their schema: a non-integer coordinate, a
\* button outside the enum, an empty key list, a path of one point.
BadRequests == {ClickFraction, ClickBack, KeysNone, DragOne}

\* C10: a request that violates its schema is answered with the validation
\* error before any effect: no page is resolved, no primitive runs, nothing
\* is registered or notified; and the invocation goes no further.
C10_ValidationFirst ==
    [][\A i \in Slots :
         /\ (inv[i].pc = "idle" /\ inv'[i].pc # "idle"
               /\ inv'[i].req \in BadRequests)
            => /\ inv'[i].pc = "done"
               /\ inv'[i].outcome.status = "error"
               /\ inv'[i].outcome.message = ValidationMessage
               /\ inv'[i].outcome.content = <<>>
               /\ inv'[i].page = NoPage
               /\ inv'[i].trace = <<>>
               /\ store' = store
               /\ notifications' = notifications
         /\ (Done(i) /\ inv[i].req \in BadRequests) => inv'[i] = inv[i]]_vars

C10_Witness ==
    /\ Done(1) /\ inv[1].req = DragOne /\ inv[1].failAt = "validate"
    /\ Succeeded(2)

\* The events of trace `tr` whose operation is in `ops`, in order.
Only(tr, ops) == SelectSeq(tr, LAMBDA e : e.op \in ops)

\* C11: a successful click with integer coordinates (x, y) and a button of
\* the enum (left when omitted) calls mouse.click once, with exactly that
\* x, y and button, and its first content part is the text with exactly
\* those coordinates and that button.
C11_ClickArguments ==
    \A i \in Slots :
        Succeeded(i) /\ inv[i].req.kind = "click"
        => LET raw == inv[i].req.args
               button == IF IsUndefined(raw.button) THEN "left"
                         ELSE raw.button.val
               clicks == Only(inv[i].trace, {"mouse.click"})
           IN  /\ Len(clicks) = 1
               /\ clicks[1].ok
               /\ clicks[1].args = <<raw.x.val, raw.y.val, button>>
               /\ inv[i].outcome.content[1] =
                    TextPart("Clicked at (" \o ToString(raw.x.val) \o ", "
                             \o ToString(raw.y.val) \o ") with " \o button)
               /\ inv[i].req = ClickLeft
                    => inv[i].outcome.content[1].text
                         = "Clicked at (10, 20) with left"
               /\ inv[i].req = ClickMiddle
                    => inv[i].outcome.content[1].text
                         = "Clicked at (-3, 0) with middle"

C11_Witness ==
    /\ Succeeded(1) /\ inv[1].req = ClickMiddle
    /\ inv[1].outcome.content[1].text = "Clicked at (-3, 0) with middle"
    /\ Succeeded(2) /\ inv[2].req = ClickLeft

\* The outcome of invocation i is a complete result, or a single error, or
\* (while it runs) nothing yet.
OneOutcome(i) ==
    LET o == inv[i].outcome
    IN  /\ ~Done(i) => o = [status |-> "pending", content |-> <<>>,
                            message |-> ""]
        /\ Done(i) => o.status \in {"result", "error"}
        /\ o.status = "result"
             => /\ o.message = ""
                /\ inv[i].thrown = ""
                /\ Len(o.content) >= 2
                /\ IsShotParts(SubSeq(o.content, Len(o.content) - 1,
                                      Len(o.content)))
                /\ inv[i].trace[Len(inv[i].trace)].op = "notification"
        /\ o.status = "error" => o.content = <<>> /\ o.message # ""

\* C12: every dispatched invocation eventually completes, with exactly one
\* outcome: a complete result or a single error, never both and never a
\* partial result with an error; nothing is returned before the last step,
\* and a completed invocation does not change any more.
C12_CompletesWithOneOutcome ==
    /\ \A i \in Slots : (inv[i].pc # "idle") ~> Done(i)
    /\ [](\A i \in Slots : OneOutcome(i))
    /\ [][\A i \in Slots : Done(i) => inv'[i] = inv[i]]_vars

C12_Witness ==
    /\ Succeeded(1) /\ inv[1].req = DragThree
    /\ Errored(2) /\ inv[2].failAt = "primitive"

MouseOps == {"mouse.click", "mouse.dblclick", "mouse.move", "mouse.wheel",
             "mouse.down", "mouse.up"}

\* C13: a successful drag over p[1..n], n >= 2, issues move(p[1]), down,
\* move(p[2]) ... move(p[n]) in path order, up, and nothing else on the
\* mouse: one press, one release, the release right after the move to the
\* last point; its text names the first and the last point and n.
C13_DragOrder ==
    \A i \in Slots :
        Succeeded(i) /\ inv[i].req.kind = "drag"
        => LET p == inv[i].req.args.path
               n == Len(p)
               m == Only(inv[i].trace, MouseOps)
               Move(pt) == Event("mouse.move", inv[i].page,
                                 <<pt.x.val, pt.y.val>>, TRUE)
           IN  /\ n >= 2
               /\ Len(m) = n + 2
               /\ m[1] = Move(p[1])
               /\ m[2] = Event("mouse.down", inv[i].page, <<>>, TRUE)
               /\ \A j \in 2..n : m[j + 1] = Move(p[j])
               /\ m[n + 2] = Event("mouse.up", inv[i].page, <<>>, TRUE)
               /\ Len(Only(inv[i].trace, {"mouse.down"})) = 1
               /\ Len(Only(inv[i].trace, {"mouse.up"})) = 1
               /\ inv[i].outcome.content[1] =
                    TextPart("Dragged from (" \o ToString(p[1].x.val) \o ", "
                             \o ToString(p[1].y.val) \o ") to ("
                             \o ToString(p[n].x.val) \o ", "
                             \o ToString(p[n].y.val) \o ") via "
                             \o ToString(n) \o " points")
               /\ inv[i].req = DragTwo
                    => inv[i].outcome.content[1].text
                         = "Dragged from (10, 10) to (50, 60) via 2 points"

C13_Witness ==
    /\ Succeeded(1) /\ inv[1].req = DragThree
    /\ inv[1].outcome.content[1].text
         = "Dragged from (10, 10) to (50, 60) via 3 points"
    /\ Succeeded(2) /\ inv[2].req = DragTwo
    /\ inv[2].outcome.content[1].text
         = "Dragged from (10, 10) to (50, 60) via 2 points"

\* A drag that ended because a move after the press raised (the primitives
\* 3 .. n + 1 of a drag over n points).
DragBrokeAfterPress(i) ==
    /\ Errored(i) /\ inv[i].req.kind = "drag"
    /\ inv[i].failAt = "primitive"
    /\ inv[i].k >= 3 /\ inv[i].k <= Len(inv[i].args.path) + 1

\* C14: when a move raises after the press of a drag, the invocation
\* ends with "Failed to drag: <message>"; mouse.up is never called, the
\* failing step releases no button, nothing is registered or notified, the
\* failed primitive is the last thing the invocation did and it was called
\* once.
C14_NoCompensatingRelease ==
    /\ [](\A i \in Slots :
            DragBrokeAfterPress(i)
            => LET tr == inv[i].trace
               IN  /\ inv[i].outcome.message
                        = "Failed to drag: " \o inv[i].thrown
                   /\ inv[i].outcome.content = <<>>
                   /\ Len(Only(tr, {"mouse.down"})) = 1
                   /\ Ops(tr) \cap {"mouse.up", "screenshot",
                                    "registerScreenshot", "notification"} = {}
                   /\ Len(tr) = inv[i].k + 1
                   /\ ~tr[Len(tr)].ok
                   /\ \A j \in 1..(Len(tr) - 1) : tr[j].ok)
    /\ [][\A i \in Slots :
            ~DragBrokeAfterPress(i) /\ DragBrokeAfterPress(i)'
            => /\ pointerDown' = pointerDown
               /\ store' = store
               /\ notifications' = notifications]_vars

C14_Witness ==
    /\ DragBrokeAfterPress(1) /\ inv[1].req = DragThree
    /\ inv[1].k = 4
    /\ inv[1].outcome.message = "Failed to drag: Protocol error: Internal error"
    /\ inv[1].page \in pointerDown
    /\ inv[2].pc = "idle"

\* Invocation i passed validation and its action has started.
Started(i) == inv[i].pc # "idle" /\ inv[i].failAt # "validate"

\* Invocation i ends in this step with an error.
Fails(i) == ~Done(i) /\ Errored(i)'

\* C15: a scroll moves the pointer to (x, y) first and applies the wheel
\* delta (scroll_x, scroll_y) second, the wheel only after the move
\* succeeded; when the wheel raises after the move, the invocation ends with
\* "Failed to scroll: <message>", no screenshot is taken and the failing
\* step registers nothing.
C15_ScrollMoveThenWheel ==
    /\ [](\A i \in Slots :
            Started(i) /\ inv[i].req.kind = "scroll"
            => LET raw == inv[i].req.args
                   m == Only(inv[i].trace, MouseOps)
               IN  /\ Len(m) <= 2
                   /\ Len(m) >= 1
                        => m[1].op = "mouse.move"
                           /\ m[1].args = <<raw.x.val, raw.y.val>>
                   /\ Len(m) = 2
                        => /\ m[1].ok
                           /\ m[2].op = "mouse.wheel"
                           /\ m[2].args = <<raw.scroll_x.val, raw.scroll_y.val>>
                   /\ Succeeded(i) => Len(m) = 2 /\ m[2].ok
                   /\ Len(m) = 2 /\ ~m[2].ok
                        => /\ Errored(i)
                           /\ inv[i].outcome.message
                                = "Failed to scroll: " \o inv[i].thrown
                           /\ inv[i].outcome.content = <<>>
                           /\ Ops(inv[i].trace)
                                \cap {"screenshot", "registerScreenshot",
                                      "notification"} = {})
    /\ [][\A i \in Slots :
            Fails(i) /\ inv[i].req.kind = "scroll"
            => store' = store /\ notifications' = notifications]_vars

C15_Witness ==
    /\ Errored(1) /\ inv[1].req.kind = "scroll"
    /\ inv[1].k = 2 /\ inv[1].failAt = "primitive"
    /\ inv[1].trace[2].op = "mouse.move" /\ inv[1].trace[2].ok
    /\ inv[1].trace[3].op = "mouse.wheel" /\ ~inv[1].trace[3].ok
    /\ inv[1].outcome.message
         = "Failed to scroll: Protocol error: Internal error"

\* C16: keypress presses the keys of its list in list order, one call per
\* key, a press being called only after the one before it completed; when
\* the press of key j raises, the keys after j are never pressed, no
\* screenshot is taken and the invocation ends with an error.
C16_KeysInOrder ==
    \A i \in Slots :
        Started(i) /\ inv[i].req.kind = "keypress"
        => LET keys == inv[i].req.args.keys
               presses == Only(inv[i].trace, {"keyboard.press"})
           IN  /\ Len(keys) >= 1
               /\ Len(presses) <= Len(keys)
               /\ \A j \in 1..Len(presses) :
                    presses[j].args = <<keys[j].val>>
               /\ \A j \in 1..(Len(presses) - 1) : presses[j].ok
               /\ Succeeded(i)
                    => Len(presses) = Len(keys) /\ presses[Len(presses)].ok
               /\ Len(presses) >= 1 /\ ~presses[Len(presses)].ok
                    => /\ Errored(i)
                       /\ inv[i].outcome.message
                            = "Failed to press keys: " \o inv[i].thrown
                       /\ Ops(inv[i].trace)
                            \cap {"screenshot", "registerScreenshot",
                                  "notification"} = {}

C16_Witness ==
    /\ Errored(1) /\ inv[1].req = KeysTwo
    /\ inv[1].failAt = "primitive" /\ inv[1].k = 1
    /\ inv[1].thrown = DriverError
    /\ Len(Only(inv[1].trace, {"keyboard.press"})) = 1
    /\ inv[1].trace[2].args = <<"Shift+Tab">>

\* The position of the first event of trace `tr` with operation `op`, or 0.
First(tr, op) ==
    IF op \in Ops(tr)
    THEN CHOOSE k \in 1..Len(tr) :
            tr[k].op = op /\ \A j \in 1..(k - 1) : tr[j].op # op
    ELSE 0

\* C17: wait delays 1000 ms when ms is omitted and accepts ms = 0; the
\* screenshot is taken only after the delay completed; a successful wait
\* registers exactly one screenshot and returns its two parts after the
\* text.
C17_WaitThenScreenshot ==
    /\ [](\A i \in Slots :
            inv[i].pc # "idle" /\ inv[i].req.kind = "wait"
               /\ (IsUndefined(inv[i].req.args.ms) \/ ZInt(inv[i].req.args.ms))
            => LET raw == inv[i].req.args
                   ms == IF IsUndefined(raw.ms) THEN 1000 ELSE raw.ms.val
                   tr == inv[i].trace
                   waits == Only(tr, {"waitForTimeout"})
                   regs == Only(tr, {"registerScreenshot"})
                   c == inv[i].outcome.content
               IN  /\ Started(i)
                   /\ Len(waits) <= 1
                   /\ \A j \in 1..Len(waits) : waits[j].args = <<ms>>
                   /\ inv[i].req = WaitDefault /\ Len(waits) = 1
                        => waits[1].args = <<1000>>
                   /\ "screenshot" \in Ops(tr)
                        => /\ Len(waits) = 1 /\ waits[1].ok
                           /\ First(tr, "waitForTimeout") < First(tr, "screenshot")
                   /\ Succeeded(i)
                        => /\ Len(regs) = 1
                           /\ Len(c) = 3
                           /\ c[1] = TextPart("Waited for " \o ToString(ms) \o " ms")
                           /\ Names(c[2], regs[1].args[2])
                           /\ IsShotParts(Tail(c))
                           /\ \E k \in 1..Len(store) :
                                /\ store[k].sessionId = regs[1].args[1]
                                /\ store[k].name = regs[1].args[2]
                                /\ store[k].data = c[3].data)
    /\ [][\A i \in Slots :
            Returns(i) /\ inv[i].req.kind = "wait"
            => Len(store') = Len(store) + 1]_vars

C17_Witness ==
    /\ Succeeded(1) /\ inv[1].req = WaitZero
    /\ inv[1].outcome.content[1].text = "Waited for 0 ms"
    /\ Len(store) = 1

\* C18: the steps of one invocation are ordered resolve, act, capture,
\* register, notify, respond: its trace is getActivePage, the primitives of
\* the action in order, screenshot, registerScreenshot, notification, or a
\* prefix of that; a step is taken only after every step before it succeeded,
\* and the result exists only once the notification step was taken.
C18_StepOrder ==
    \A i \in Slots :
        Started(i)
        => LET tr == inv[i].trace
               prims == Tool(inv[i].args).prims
               np == Len(prims)
           IN  /\ Len(tr) <= np + 4
               /\ \A j \in 1..Len(tr) :
                    /\ j = 1 => tr[j].op = "getActivePage"
                    /\ j > 1 /\ j <= np + 1
                         => tr[j].op = prims[j - 1].method
                            /\ tr[j].args = prims[j - 1].args
                    /\ j = np + 2 => tr[j].op = "screenshot"
                    /\ j = np + 3 => tr[j].op = "registerScreenshot"
                    /\ j = np + 4 => tr[j].op = "notification"
                    /\ j < Len(tr) => tr[j].ok /\ tr[j].page # NoPage
               /\ inv[i].outcome.status = "result"
                    <=> Len(tr) = np + 4 /\ tr[Len(tr)].ok
               /\ inv[i].outcome.status = "result"
                    => inv[i].outcome.content # <<>>

C18_Witness ==
    /\ Succeeded(1) /\ inv[1].req = DragThree
    /\ Len(inv[1].trace) = 9
    /\ inv[1].trace[7].op = "screenshot"
    /\ inv[1].trace[8].op = "registerScreenshot"
    /\ inv[1].trace[9].op = "notification"
    /\ inv[2].pc = "screenshot" /\ Len(inv[2].trace) = 2

\* C19: no lock is held across the suspension points of an action: an
\* invocation waiting for a primitive can take that step whatever the other
\* invocations on the same page are doing, so the primitives of two
\* invocations on one session can interleave.
C19_NotSerialized ==
    \A i \in Slots :
        inv[i].pc = "primitive" => ENABLED Primitive(i)

\* Two drags on the same page have both pressed and neither has released.
C19_Witness ==
    /\ inv[1].req.kind = "drag" /\ inv[2].req.kind = "drag"
    /\ inv[1].pc = "primitive" /\ inv[2].pc = "primitive"
    /\ inv[1].page = inv[2].page
    /\ inv[1].k = 3 /\ inv[2].k = 3
    /\ inv[1].trace[3].op = "mouse.down" /\ inv[2].trace[3].op = "mouse.down"

\* C20: an invocation that ends in an error has registered nothing and
\* notified nothing, wherever it failed: its trace has no registration and
\* no notification, and a step that changes the store or the notifications
\* is the last step of an invocation that returns a result.
C20_ErrorLeavesStoreAlone ==
    /\ [](\A i \in Slots :
            Errored(i)
            => /\ inv[i].failAt \in {"validate", "resolve", "primitive",
                                     "capture"}
               /\ Ops(inv[i].trace)
                    \cap {"registerScreenshot", "notification"} = {})
    /\ [][\A i \in Slots :
            Fails(i) => store' = store /\ notifications' = notifications]_vars
    /\ [][store' # store \/ notifications' # notifications
            => \E i \in Slots : Returns(i)]_vars

C20_Witness ==
    /\ Succeeded(2) /\ Len(store) = 1 /\ Len(notifications) = 1
    /\ Errored(1) /\ inv[1].failAt = "capture"
    /\ inv[1].page = inv[2].page

====
